---------------------------- MODULE Spec2Model ----------------------------
(***************************************************************************)
(* A model of schem.py (src/main.py): tokenize, tokens_to_syntax_tree,     *)
(* atom, parse, Env, Procedure, evaluate, schemestr and the read-eval-     *)
(* print cycle, as a state machine.  Every invocation of evaluate is a     *)
(* frame on an explicit stack, so that host recursion depth is observable. *)
(***************************************************************************)
EXTENDS Integers, Sequences, FiniteSets, TLC

\* ------------------------------------------------------------------ bounds
\* number of inputs read in one session
MaxInputs == 3
\* largest iteration count of the tail-recursive probes
MaxN == 2
\* largest integer literal an input may hold
MaxNumeral == 99

\* ------------------------------------------------------- expressions, values
\* Symbol = str, Number = int, List = list (lines 5-7); values are tagged so
\* that isinstance tests become tests of the tag.
Num(n) == [t |-> "num", n |-> n]
Sym(s) == [t |-> "sym", s |-> s]
Lst(l) == [t |-> "list", l |-> l]
Bool(b) == [t |-> "bool", b |-> b]
NoneV == [t |-> "none"]
Prim(p) == [t |-> "prim", p |-> p]
\* an unassigned local / empty result register
Nothing == [t |-> "nothing"]

\* Procedure.__init__ (lines 22-25): the closure keeps params, body and a
\* reference (heap index) to the environment it was created in.
Procedure(params, body, env) ==
    [t |-> "proc", params |-> params, body |-> body, env |-> env]

\* ------------------------------------------------------------------- lexer
\* Source text is a sequence of chunks: "(", ")", " " (a run of whitespace)
\* or the text of one atom.  tokenize pads the parentheses and splits on
\* whitespace: what is left are the non-blank chunks.
tokenize(chars) == SelectSeq(chars, LAMBDA c : c # " ")

\* ------------------------------------------------------------------ parser
\* the numerals int(token) accepts in this model
Numerals == {ToString(i) : i \in 0 .. MaxNumeral}

\* atom (lines 100-108): int(token) if it parses, else a Symbol.
atom(token) ==
    IF token \in Numerals
    THEN Num(CHOOSE i \in 0 .. MaxNumeral : ToString(i) = token)
    ELSE Sym(token)

ParseOk(tree, rest) == [err |-> "none", tree |-> tree, rest |-> rest]
ParseErr(kind) == [err |-> kind, tree |-> NoneV, rest |-> <<>>]

RECURSIVE tokens_to_syntax_tree(_)
RECURSIVE ReadList(_, _)

\* the while loop of lines 91-94: tokens[0] on an exhausted list raises
\* IndexError; ")" ends the list and is popped.
ReadList(tokens, L) ==
    IF Len(tokens) = 0 THEN ParseErr("IndexError")
    ELSE IF Head(tokens) = ")" THEN ParseOk(Lst(L), Tail(tokens))
    ELSE LET r == tokens_to_syntax_tree(tokens)
         IN  IF r.err # "none" THEN r
             ELSE ReadList(r.rest, Append(L, r.tree))

\* tokens_to_syntax_tree (lines 80-98)
tokens_to_syntax_tree(tokens) ==
    IF Len(tokens) = 0 THEN ParseErr("SyntaxError")
    ELSE LET token == Head(tokens)
             rest == Tail(tokens)
         IN  IF token = "(" THEN ReadList(rest, <<>>)
             ELSE IF token = ")" THEN ParseErr("SyntaxError")
             ELSE ParseOk(atom(token), rest)

\* parse (lines 110-112)
parse(program) == tokens_to_syntax_tree(tokenize(program))

\* ----------------------------------------------------------------- printer
\* str(exp) for a value that is not a list
PyStr(v) ==
    CASE v.t = "num" -> ToString(v.n)
      [] v.t = "sym" -> v.s
      [] v.t = "bool" -> IF v.b THEN "True" ELSE "False"
      [] v.t = "none" -> "None"
      [] v.t = "prim" -> "<built-in " \o v.p \o ">"
      [] OTHER -> "<Procedure>"

RECURSIVE schemestr(_)
RECURSIVE JoinStr(_)

\* " ".join(map(schemestr, exp))
JoinStr(l) ==
    IF Len(l) = 0 THEN ""
    ELSE IF Len(l) = 1 THEN schemestr(l[1])
    ELSE schemestr(l[1]) \o " " \o JoinStr(Tail(l))

\* schemestr (lines 184-189)
schemestr(exp) ==
    IF exp.t = "list" THEN "(" \o JoinStr(exp.l) \o ")" ELSE PyStr(exp)


\* ------------------------------------------------------------------- state
VARIABLES
    scen,    \* which menu of inputs this session draws from
    log,     \* transcript: one record per input read (text, value, output, error)
    text,    \* the input being evaluated (<<>> between inputs)
    envs,    \* heap of Env objects; an Env reference is an index into it
    stack,   \* active invocations of evaluate, innermost last
    ret      \* value returned by the invocation that just ended, or Nothing

vars == <<scen, log, text, envs, stack, ret>>

\* ------------------------------------------------------------- environment
\* names bound by standard_env (lines 30-68) that the inputs use
PrimNames == {"+", "-", "=", "begin", "list", "car"}

\* the reference to global_env (line 70)
global_env == 1

\* standard_env (lines 30-68): an Env without outer
standard_env == [dict |-> [n \in PrimNames |-> Prim(n)], outer |-> 0]

\* the names a parameter list binds, in order; zip pairs them with the
\* arguments and stops at the shorter of the two (line 13)
ZipLen(params, args) ==
    IF Len(params.l) < Len(args) THEN Len(params.l) ELSE Len(args)

\* Env.__init__ (lines 12-14): self.update(zip(params, args)); a repeated
\* name keeps its last value.
Env(params, args, outer) ==
    LET k == ZipLen(params, args)
        names == {params.l[i].s : i \in 1 .. k}
        last(n) == CHOOSE i \in 1 .. k :
                      /\ params.l[i].s = n
                      /\ \A j \in 1 .. k : params.l[j].s = n => j <= i
    IN  [dict |-> [n \in names |-> args[last(n)]], outer |-> outer]

\* can this parameter list be zipped into a dict of names?
ParamsOk(params) ==
    /\ params.t = "list"
    /\ \A i \in 1 .. Len(params.l) : params.l[i].t = "sym"

RECURSIVE find(_, _)
\* Env.find (lines 16-18): the innermost Env of the chain that binds var.
\* At the root self.outer is None and None.find raises AttributeError: 0.
find(e, var) ==
    IF var \in DOMAIN envs[e].dict THEN e
    ELSE IF envs[e].outer = 0 THEN 0
    ELSE find(envs[e].outer, var)

\* dict item assignment: d[name] = val
SetItem(d, name, val) ==
    [n \in (DOMAIN d) \cup {name} |-> IF n = name THEN val ELSE d[n]]

\* the environments of the chain that starts at e, innermost first
RECURSIVE Chain(_)
Chain(e) == IF e = 0 THEN <<>> ELSE <<e>> \o Chain(envs[e].outer)

\* --------------------------------------------------------------- primitives
IsNumeric(v) == v.t \in {"num", "bool"}
IntOf(v) == IF v.t = "num" THEN v.n ELSE IF v.b THEN 1 ELSE 0

\* truth value of a Python object, as `if` tests it (line 161)
Truthy(v) ==
    CASE v.t = "num" -> v.n # 0
      [] v.t = "bool" -> v.b
      [] v.t = "list" -> Len(v.l) > 0
      [] v.t = "none" -> FALSE
      [] OTHER -> TRUE

\* == on Python objects
PyEq(a, b) ==
    IF IsNumeric(a) /\ IsNumeric(b) THEN IntOf(a) = IntOf(b)
    ELSE a.t = b.t /\ a = b

PrimOk(v) == [err |-> "none", val |-> v]
PrimErr(kind) == [err |-> kind, val |-> NoneV]

\* proc(*args) for the host functions of standard_env (lines 35-58)
CallPrim(p, args) ==
    CASE p = "+" ->
           IF Len(args) # 2 THEN PrimErr("TypeError")
           ELSE IF IsNumeric(args[1]) /\ IsNumeric(args[2])
                THEN PrimOk(Num(IntOf(args[1]) + IntOf(args[2])))
           ELSE IF args[1].t = "list" /\ args[2].t = "list"
                THEN PrimOk(Lst(args[1].l \o args[2].l))
           ELSE IF args[1].t = "sym" /\ args[2].t = "sym"
                THEN PrimOk(Sym(args[1].s \o args[2].s))
           ELSE PrimErr("TypeError")
      [] p = "-" ->
           IF Len(args) = 2 /\ IsNumeric(args[1]) /\ IsNumeric(args[2])
           THEN PrimOk(Num(IntOf(args[1]) - IntOf(args[2])))
           ELSE PrimErr("TypeError")
      [] p = "=" ->
           IF Len(args) # 2 THEN PrimErr("TypeError")
           ELSE PrimOk(Bool(PyEq(args[1], args[2])))
      [] p = "begin" ->
           IF Len(args) = 0 THEN PrimErr("IndexError")
           ELSE PrimOk(args[Len(args)])
      [] p = "list" -> PrimOk(Lst(args))
      [] p = "car" ->
           IF Len(args) # 1 THEN PrimErr("TypeError")
           ELSE IF args[1].t = "list"
                THEN IF Len(args[1].l) = 0 THEN PrimErr("IndexError")
                     ELSE PrimOk(args[1].l[1])
           ELSE PrimErr("TypeError")


\* ------------------------------------------------------------------ inputs
\* The lines a session may read (input(prompt), line 194), as chunk sequences.
\* (quote (+ 1 2))
TQuoteSum ==
    <<"(", "quote", " ", "(", "+", " ", "1", " ", "2", ")", ")">>

\* (quote x)
TQuoteSym ==
    <<"(", "quote", " ", "x", ")">>

\* (quote (a (b 1)))
TQuoteNested ==
    <<"(", "quote", " ", "(", "a", " ", "(", "b", " ", "1", ")", ")", ")">>

\* (+ 1 2)
TSum ==
    <<"(", "+", " ", "1", " ", "2", ")">>

\* (
TOpen ==
    <<"(">>

\* (+ 1
TOpenSum ==
    <<"(", "+", " ", "1">>

\* )
TClose ==
    <<")">>

\* (empty line)
TEmpty ==
    <<>>

\* (begin (define x 1) (define f (lambda () x)) (define g (lambda (x) (f))) (define h ((lambda (y) (lambda () y)) 7)))
TLexSetup ==
    <<"(", "begin", " ", "(", "define", " ", "x", " ", "1", ")", " ", "(",
      "define", " ", "f", " ", "(", "lambda", " ", "(", ")", " ", "x", ")",
      ")", " ", "(", "define", " ", "g", " ", "(", "lambda", " ", "(", "x",
      ")", " ", "(", "f", ")", ")", ")", " ", "(", "define", " ", "h", " ",
      "(", "(", "lambda", " ", "(", "y", ")", " ", "(", "lambda", " ", "(",
      ")", " ", "y", ")", ")", " ", "7", ")", ")", ")">>

\* (define x 3)
TDefX3 ==
    <<"(", "define", " ", "x", " ", "3", ")">>

\* (g 2)
TCallG ==
    <<"(", "g", " ", "2", ")">>

\* (h)
TCallH ==
    <<"(", "h", ")">>

\* y
TSymY ==
    <<"y">>

\* (define loop (lambda (n) (if (= n 0) 42 (loop (- n 1)))))
TDefLoop ==
    <<"(", "define", " ", "loop", " ", "(", "lambda", " ", "(", "n", ")",
      " ", "(", "if", " ", "(", "=", " ", "n", " ", "0", ")", " ", "42",
      " ", "(", "loop", " ", "(", "-", " ", "n", " ", "1", ")", ")", ")",
      ")", ")">>

\* (define down (lambda (n) (if n (down (- n 1)) 42)))
TDefDown ==
    <<"(", "define", " ", "down", " ", "(", "lambda", " ", "(", "n", ")",
      " ", "(", "if", " ", "n", " ", "(", "down", " ", "(", "-", " ", "n",
      " ", "1", ")", ")", " ", "42", ")", ")", ")">>

\* (begin (define x 1) (define f (lambda () (begin (define x 5) x))) (define s (lambda (x) (begin (set! x 9) x))) (define t (lambda () (set! x 8))))
TFrameSetup ==
    <<"(", "begin", " ", "(", "define", " ", "x", " ", "1", ")", " ", "(",
      "define", " ", "f", " ", "(", "lambda", " ", "(", ")", " ", "(",
      "begin", " ", "(", "define", " ", "x", " ", "5", ")", " ", "x", ")",
      ")", ")", " ", "(", "define", " ", "s", " ", "(", "lambda", " ", "(",
      "x", ")", " ", "(", "begin", " ", "(", "set!", " ", "x", " ", "9",
      ")", " ", "x", ")", ")", ")", " ", "(", "define", " ", "t", " ", "(",
      "lambda", " ", "(", ")", " ", "(", "set!", " ", "x", " ", "8", ")",
      ")", ")", ")">>

\* (f)
TCallF ==
    <<"(", "f", ")">>

\* (s 2)
TCallS ==
    <<"(", "s", " ", "2", ")">>

\* (t)
TCallT ==
    <<"(", "t", ")">>

\* (set! z 1)
TSetZ ==
    <<"(", "set!", " ", "z", " ", "1", ")">>

\* x
TSymX ==
    <<"x">>

\* (begin (define c 0) (define inc (lambda () (set! c (+ c 1)))) (define get (lambda () c)))
TShareRoot ==
    <<"(", "begin", " ", "(", "define", " ", "c", " ", "0", ")", " ", "(",
      "define", " ", "inc", " ", "(", "lambda", " ", "(", ")", " ", "(",
      "set!", " ", "c", " ", "(", "+", " ", "c", " ", "1", ")", ")", ")",
      ")", " ", "(", "define", " ", "get", " ", "(", "lambda", " ", "(",
      ")", " ", "c", ")", ")", ")">>

\* (begin (define inc 0) (define get 0) ((lambda (c) (begin (set! inc (lambda () (set! c (+ c 1)))) (set! get (lambda () c)))) 5))
TShareChild ==
    <<"(", "begin", " ", "(", "define", " ", "inc", " ", "0", ")", " ",
      "(", "define", " ", "get", " ", "0", ")", " ", "(", "(", "lambda",
      " ", "(", "c", ")", " ", "(", "begin", " ", "(", "set!", " ", "inc",
      " ", "(", "lambda", " ", "(", ")", " ", "(", "set!", " ", "c", " ",
      "(", "+", " ", "c", " ", "1", ")", ")", ")", ")", " ", "(", "set!",
      " ", "get", " ", "(", "lambda", " ", "(", ")", " ", "c", ")", ")",
      ")", ")", " ", "5", ")", ")">>

\* (inc)
TCallInc ==
    <<"(", "inc", ")">>

\* (get)
TCallGet ==
    <<"(", "get", ")">>

\* c
TSymC ==
    <<"c">>

\* ((lambda (x y) x) 1)
TFewArgs ==
    <<"(", "(", "lambda", " ", "(", "x", " ", "y", ")", " ", "x", ")", " ",
      "1", ")">>

\* ((lambda (x) x) 1 2)
TManyArgs ==
    <<"(", "(", "lambda", " ", "(", "x", ")", " ", "x", ")", " ", "1", " ",
      "2", ")">>

\* (begin (define a 1) b)
TDefThenFail ==
    <<"(", "begin", " ", "(", "define", " ", "a", " ", "1", ")", " ", "b",
      ")">>

\* (begin (set! a 5) b)
TSetThenFail ==
    <<"(", "begin", " ", "(", "set!", " ", "a", " ", "5", ")", " ", "b",
      ")">>

\* a
TSymA ==
    <<"a">>

\* (1 2)
TCallNumber ==
    <<"(", "1", " ", "2", ")">>

\* (if 1 2)
TShortIf ==
    <<"(", "if", " ", "1", " ", "2", ")">>

\* ()
TNil ==
    <<"(", ")">>

\* (loop k) and (down k), k iterations of the tail-recursive procedures
LoopCall(k) == <<"(", "loop", " ", ToString(k), ")">>
DownCall(k) == <<"(", "down", " ", ToString(k), ")">>

\* A session draws its lines, in any order and with repetition, from one menu.
Menus ==
    << {TQuoteSum, TQuoteSym, TQuoteNested, TSum, TOpen, TOpenSum, TClose,
        TEmpty},
       {TLexSetup, TDefX3, TCallG, TCallH, TSymY},
       {TDefLoop} \cup {LoopCall(k) : k \in 0 .. MaxN},
       {TDefDown} \cup {DownCall(k) : k \in 0 .. MaxN},
       {TFrameSetup, TCallF, TCallS, TCallT, TSetZ, TSymX},
       {TShareRoot, TShareChild, TCallInc, TCallGet, TSymC},
       {TFewArgs, TManyArgs, TDefThenFail, TSetThenFail, TSymA, TCallNumber,
        TShortIf, TNil} >>

\* --------------------------------------------------------------- evaluator
\* one invocation of evaluate(x, env): its locals and where it stands
Frame(x, env) ==
    [x |-> x, env |-> env, pc |-> "start", args |-> <<>>, proc |-> Nothing]

Entry(t, v, out, err) == [text |-> t, val |-> v, out |-> out, err |-> err]

top == stack[Len(stack)]
Popped == SubSeq(stack, 1, Len(stack) - 1)
Running == stack # <<>> /\ ret = Nothing
Resuming == stack # <<>> /\ ret # Nothing
Idle == stack = <<>> /\ ret = Nothing

\* x[0] == kw for a non-empty list x (lines 159-172)
IsForm(x, kw) ==
    /\ x.t = "list"
    /\ Len(x.l) > 0
    /\ x.l[1].t = "sym"
    /\ x.l[1].s = kw

SpecialForms == {"if", "define", "quote", "set!", "lambda"}

IsApplication(x) ==
    /\ x.t = "list"
    /\ Len(x.l) > 0
    /\ \A kw \in SpecialForms : ~IsForm(x, kw)

\* an exception leaves evaluate: every active invocation is unwound and the
\* caller sees the error; environments keep what was written to them.
Raise(kind) ==
    /\ stack' = <<>>
    /\ ret' = Nothing
    /\ log' = Append(log, Entry(text, NoneV, "", kind))
    /\ UNCHANGED <<scen, text, envs>>

\* `return v` from the innermost invocation
Return(v) ==
    /\ stack' = Popped
    /\ ret' = v
    /\ UNCHANGED <<scen, text, log>>

\* the innermost invocation goes on as frame f (same invocation)
Continue(f) ==
    /\ stack' = [stack EXCEPT ![Len(stack)] = f]
    /\ UNCHANGED <<scen, text, log>>

\* the innermost invocation waits at pc for evaluate(sub, env) (a recursive call)
Call(pc, args, sub) ==
    /\ stack' = Append([stack EXCEPT ![Len(stack)] =
                          [top EXCEPT !.pc = pc, !.args = args]],
                       Frame(sub, top.env))
    /\ ret' = Nothing
    /\ UNCHANGED <<scen, text, log, envs>>

\* line 167: the value of a quote form
QuoteValue(x) == Lst(Tail(x.l))

\* a define that overwrites the nearest existing binding of the name
DefineTargetFound(e, symbol) ==
    IF find(e, symbol) # 0 THEN find(e, symbol) ELSE e

\* line 164: the Env that `env[symbol] = ...` writes to
DefineTarget(e, symbol) == e

\* a set! that writes to the current scope
AssignTargetCurrent(e, symbol) == e

\* line 170: the Env that `env.find(symbol)[symbol] = ...` writes to (0: the
\* walk left the chain)
AssignTarget(e, symbol) == find(e, symbol)

\* the elements taken right to left
OperandReversed(x, k) == x.l[Len(x.l) + 1 - k]

\* line 176: the k-th element the comprehension evaluates
Operand(x, k) == x.l[k]

\* dynamic scoping: the new Env hangs under the caller's
ProcOuterCaller(proc, caller) == caller

\* line 180: the outer of the Env built for a call of proc made from caller
ProcOuter(proc, caller) == proc.env

\* the call of a Procedure as a nested invocation of evaluate
TrampolineRecurse(stk, f) == Append(stk, f)

\* lines 179-180 inside `while True`: the call of a Procedure rewrites x and
\* env of the running invocation, which then loops
Trampoline(stk, f) == [stk EXCEPT ![Len(stk)] = f]

\* a name usable as a dict key in this model
KeyOk(symbol) == symbol.t = "sym"

\* val = evaluate(parse(input(prompt))) (line 194): read a line and parse it;
\* a parse error surfaces at once, otherwise evaluate starts on global_env.
Read(t) ==
    /\ Idle
    /\ Len(log) < MaxInputs
    /\ t \in Menus[scen]
    /\ text' = t
    /\ LET r == parse(t)
       IN  IF r.err # "none"
           THEN /\ log' = Append(log, Entry(t, NoneV, "", r.err))
                /\ UNCHANGED stack
           ELSE /\ stack' = <<Frame(r.tree, global_env)>>
                /\ UNCHANGED log
    /\ UNCHANGED <<scen, envs, ret>>

\* lines 155-156: return env.find(x)[x]
EvalSymbol ==
    /\ Running
    /\ top.pc = "start"
    /\ top.x.t = "sym"
    /\ LET e == find(top.env, top.x.s)
       IN  IF e = 0 THEN Raise("AttributeError")
           ELSE Return(envs[e].dict[top.x.s]) /\ UNCHANGED envs

\* lines 157-158: a constant evaluates to itself
EvalConstant ==
    /\ Running
    /\ top.pc = "start"
    /\ top.x.t \notin {"sym", "list"}
    /\ Return(top.x)
    /\ UNCHANGED envs

\* line 159 on the empty list: x[0] raises IndexError
EvalEmpty ==
    /\ Running
    /\ top.pc = "start"
    /\ top.x.t = "list"
    /\ Len(top.x.l) = 0
    /\ Raise("IndexError")

\* lines 159-161: unpack the form, then evaluate(test, env)
EvalIf ==
    /\ Running
    /\ top.pc = "start"
    /\ IsForm(top.x, "if")
    /\ IF Len(top.x.l) # 4 THEN Raise("ValueError")
       ELSE Call("if_test", top.args, top.x.l[2])

\* line 161: x = conseq if <test value> else alt; the loop goes round
IfBranch ==
    /\ Resuming
    /\ top.pc = "if_test"
    /\ Continue([top EXCEPT !.pc = "start",
                            !.x = IF Truthy(ret) THEN top.x.l[3]
                                  ELSE top.x.l[4]])
    /\ ret' = Nothing
    /\ UNCHANGED envs

\* lines 162-164: unpack the form, then evaluate(exp, env)
EvalDefine ==
    /\ Running
    /\ top.pc = "start"
    /\ IsForm(top.x, "define")
    /\ IF Len(top.x.l) # 3 THEN Raise("ValueError")
       ELSE Call("define_exp", top.args, top.x.l[3])

\* lines 164-165: env[symbol] = <value>; return None
DefineBind ==
    /\ Resuming
    /\ top.pc = "define_exp"
    /\ LET symbol == top.x.l[2]
       IN  IF ~KeyOk(symbol) THEN Raise("TypeError")
           ELSE LET e == DefineTarget(top.env, symbol.s)
                IN  /\ envs' = [envs EXCEPT ![e].dict =
                                   SetItem(@, symbol.s, ret)]
                    /\ Return(NoneV)

\* lines 166-167
EvalQuote ==
    /\ Running
    /\ top.pc = "start"
    /\ IsForm(top.x, "quote")
    /\ Return(QuoteValue(top.x))
    /\ UNCHANGED envs

\* lines 168-170: unpack the form, then evaluate(exp, env); the target
\* env.find(symbol) is looked up after the value is computed
EvalSet ==
    /\ Running
    /\ top.pc = "start"
    /\ IsForm(top.x, "set!")
    /\ IF Len(top.x.l) # 3 THEN Raise("ValueError")
       ELSE Call("set_exp", top.args, top.x.l[3])

\* lines 170-171: env.find(symbol)[symbol] = <value>; return None
SetBind ==
    /\ Resuming
    /\ top.pc = "set_exp"
    /\ LET symbol == top.x.l[2]
       IN  IF ~KeyOk(symbol) THEN Raise("TypeError")
           ELSE LET e == AssignTarget(top.env, symbol.s)
                IN  IF e = 0 THEN Raise("AttributeError")
                    ELSE /\ envs' = [envs EXCEPT ![e].dict =
                                        SetItem(@, symbol.s, ret)]
                         /\ Return(NoneV)

\* lines 172-174: return Procedure(params, body, env)
EvalLambda ==
    /\ Running
    /\ top.pc = "start"
    /\ IsForm(top.x, "lambda")
    /\ IF Len(top.x.l) # 3 THEN Raise("ValueError")
       ELSE Return(Procedure(top.x.l[2], top.x.l[3], top.env))
    /\ UNCHANGED envs

\* line 176: the comprehension starts with the first element of x
EvalApplication ==
    /\ Running
    /\ top.pc = "start"
    /\ IsApplication(top.x)
    /\ Call("args", <<>>, Operand(top.x, 1))

\* line 176: one element's value is collected, the next is evaluated
ArgNext ==
    /\ Resuming
    /\ top.pc = "args"
    /\ Len(top.args) + 1 < Len(top.x.l)
    /\ Call("args", Append(top.args, ret), Operand(top.x, Len(top.args) + 2))

\* the list of line 176 once its last element has its value
Evaluated == Append(top.args, ret)

ArgsDone ==
    /\ Resuming
    /\ top.pc = "args"
    /\ Len(top.args) + 1 = Len(top.x.l)

\* lines 177-180: proc = args.pop(0); a Procedure is not called: x becomes
\* its body, env a new Env, and the loop goes round
ApplyProcedure ==
    /\ ArgsDone
    /\ Head(Evaluated).t = "proc"
    /\ LET proc == Head(Evaluated)
           args == Tail(Evaluated)
       IN  IF ~ParamsOk(proc.params) THEN Raise("TypeError")
           ELSE /\ envs' = Append(envs, Env(proc.params, args,
                                            ProcOuter(proc, top.env)))
                /\ stack' = Trampoline(stack,
                               [x |-> proc.body, env |-> Len(envs) + 1,
                                pc |-> "start", args |-> args,
                                proc |-> proc])
                /\ ret' = Nothing
                /\ UNCHANGED <<scen, text, log>>

\* lines 177, 181-182: return proc(*args) for a host function
ApplyPrimitive ==
    /\ ArgsDone
    /\ Head(Evaluated).t = "prim"
    /\ LET r == CallPrim(Head(Evaluated).p, Tail(Evaluated))
       IN  IF r.err # "none" THEN Raise(r.err)
           ELSE Return(r.val) /\ UNCHANGED envs

\* line 182 when proc is no callable: TypeError
ApplyNotCallable ==
    /\ ArgsDone
    /\ Head(Evaluated).t \notin {"proc", "prim"}
    /\ Raise("TypeError")

\* lines 194-196: the value of the outermost invocation reaches the caller,
\* which prints schemestr(val) unless val is None
Emit ==
    /\ stack = <<>>
    /\ ret # Nothing
    /\ log' = Append(log, Entry(text, ret,
                                IF ret = NoneV THEN "" ELSE schemestr(ret),
                                "none"))
    /\ ret' = Nothing
    /\ UNCHANGED <<scen, text, envs, stack>>

\* global_env = standard_env() (line 70); nothing read yet
Init ==
    /\ scen \in DOMAIN Menus
    /\ log = <<>>
    /\ text = <<>>
    /\ envs = <<standard_env>>
    /\ stack = <<>>
    /\ ret = Nothing

Next ==
    \/ \E t \in Menus[scen] : Read(t)
    \/ EvalSymbol
    \/ EvalConstant
    \/ EvalEmpty
    \/ EvalIf
    \/ IfBranch
    \/ EvalDefine
    \/ DefineBind
    \/ EvalQuote
    \/ EvalSet
    \/ SetBind
    \/ EvalLambda
    \/ EvalApplication
    \/ ArgNext
    \/ ApplyProcedure
    \/ ApplyPrimitive
    \/ ApplyNotCallable
    \/ Emit

Spec == Init /\ [][Next]_vars

\* ------------------------------------------------------------------ claims
\* the parsed form of the i-th line of the transcript
Parsed(i) == parse(log[i].text)
Succeeded(i) == log[i].err = "none"

\* var is bound by some Env of the chain that starts at e
BoundIn(e, var) ==
    \E k \in 1 .. Len(Chain(e)) : var \in DOMAIN envs[Chain(e)[k]].dict

\* the step taken surfaces an error of this kind to the caller
Surfaces(kind) ==
    /\ Len(log') = Len(log) + 1
    /\ log'[Len(log')].err = kind

\* the step taken surfaces some error to the caller
SurfacesError ==
    /\ Len(log') = Len(log) + 1
    /\ log'[Len(log')].err # "none"

\* C1: evaluating (quote e) returns e itself, exactly as parsed, and it is
\* rendered as the rendering of e: "(+ 1 2)" for (quote (+ 1 2)).
QuoteReturnsOperand ==
    \A i \in DOMAIN log :
        (/\ Parsed(i).err = "none"
         /\ IsForm(Parsed(i).tree, "quote")
         /\ Len(Parsed(i).tree.l) = 2)
        => /\ Succeeded(i)
           /\ log[i].val = Parsed(i).tree.l[2]
           /\ log[i].out = schemestr(Parsed(i).tree.l[2])

\* number of "(" minus number of ")" among the first k tokens
RECURSIVE OpenAt(_, _)
OpenAt(tokens, k) ==
    IF k = 0 THEN 0
    ELSE OpenAt(tokens, k - 1)
         + (IF tokens[k] = "(" THEN 1 ELSE IF tokens[k] = ")" THEN -1 ELSE 0)

\* the tokens end before the first form is complete
Unfinished(tokens) ==
    \/ Len(tokens) = 0
    \/ /\ tokens[1] = "("
       /\ \A k \in 1 .. Len(tokens) : OpenAt(tokens, k) > 0

\* C5: parse fails with SyntaxError, and no other kind of error, when the
\* tokens run out inside an incomplete form (empty input, "(" , "(+ 1") and
\* when the input starts with an unmatched ")".
IncompleteInputIsSyntaxError ==
    \A i \in DOMAIN log :
        LET tokens == tokenize(log[i].text)
        IN  (Unfinished(tokens) \/ (Len(tokens) > 0 /\ tokens[1] = ")"))
            => log[i].err = "SyntaxError"

\* C4: evaluating a symbol that no scope of the chain binds fails with
\* UnboundVariable; the walk does not dereference the root's missing parent.
UnboundSymbolIsUnboundVariable ==
    [][(/\ Running
        /\ top.pc = "start"
        /\ top.x.t = "sym"
        /\ ~BoundIn(top.env, top.x.s))
       => Surfaces("UnboundVariable")]_vars

\* C8: calling a closure of k parameters with m # k arguments fails with an
\* arity error: no environment is built and the body is not evaluated.
ArityMismatchFails ==
    [][(/\ ArgsDone
        /\ Head(Evaluated).t = "proc"
        /\ ParamsOk(Head(Evaluated).params)
        /\ Len(Head(Evaluated).params.l) # Len(Tail(Evaluated)))
       => (SurfacesError /\ envs' = envs)]_vars

\* the innermost Env of the chain from e that binds var (var is bound there)
Innermost(e, var) ==
    Chain(e)[CHOOSE k \in 1 .. Len(Chain(e)) :
                /\ var \in DOMAIN envs[Chain(e)[k]].dict
                /\ \A j \in 1 .. (k - 1) :
                      var \notin DOMAIN envs[Chain(e)[j]].dict]

\* C7: (set! name exp) never creates a binding: if the chain binds name, only
\* the innermost binding scope gets the new value and no scope's key set
\* changes; if no scope binds name the evaluation fails with UnboundVariable
\* and no scope gains a binding.
SetNeverCreates ==
    [][(/\ Resuming
        /\ top.pc = "set_exp"
        /\ KeyOk(top.x.l[2]))
       => LET name == top.x.l[2].s
          IN  IF BoundIn(top.env, name)
              THEN /\ Len(envs') = Len(envs)
                   /\ \A e \in DOMAIN envs :
                         /\ DOMAIN envs'[e].dict = DOMAIN envs[e].dict
                         /\ e # Innermost(top.env, name) => envs'[e] = envs[e]
                   /\ envs'[Innermost(top.env, name)].dict[name] = ret
              ELSE /\ envs' = envs
                   /\ Surfaces("UnboundVariable")]_vars

\* the largest element of a non-empty set of integers
MaxOf(S) == CHOOSE m \in S : \A j \in S : j <= m

\* the lines before the i-th whose text is in T
Before(i, T) == {j \in 1 .. (i - 1) : log[j].text \in T}

\* C2: a call of a closure evaluates the body in a new Env whose outer is the
\* Env the lambda was evaluated in, not the caller's: (g 2) binds x to 2 and
\* calls f, whose free x is the global one (1, or 3 once redefined); (h)
\* returns the y captured by its defining call although no y is bound at the
\* place of the call.
LexicalScope ==
    /\ \A k \in DOMAIN stack :
          stack[k].proc.t = "proc"
          => envs[stack[k].env].outer = stack[k].proc.env
    /\ \A i \in DOMAIN log :
          /\ (log[i].text = TCallG /\ Before(i, {TLexSetup}) # {})
             => /\ Succeeded(i)
                /\ log[i].val =
                     Num(IF log[MaxOf(Before(i, {TLexSetup, TDefX3}))].text
                            = TLexSetup
                         THEN 1 ELSE 3)
          /\ (log[i].text = TCallH /\ Before(i, {TLexSetup}) # {})
             => /\ Succeeded(i)
                /\ log[i].val = Num(7)

\* (g 2) gave the global x and (h) the captured y, in one session
LexicalScopeWitness ==
    /\ \E i \in DOMAIN log :
          /\ log[i].text = TCallG
          /\ log[i].val = Num(1)
    /\ \E i \in DOMAIN log :
          /\ log[i].text = TCallH
          /\ log[i].val = Num(7)
    /\ "y" \notin DOMAIN envs[global_env].dict

\* the running invocation is at the top of the loop with the body of the
\* closure it last applied: an iteration of that closure starts
IterationStart ==
    /\ Running
    /\ top.pc = "start"
    /\ top.proc.t = "proc"
    /\ top.x = top.proc.body

TailCalls == {LoopCall(k) : k \in 0 .. MaxN} \cup {DownCall(k) : k \in 0 .. MaxN}

\* C3: during (loop n) and (down n), whose recursive call is the alternative,
\* resp. the consequent, of the `if` that is the body, every iteration starts
\* with one invocation of evaluate active, whatever n; the call ends with the
\* base-case value 42.
TailCallDepth ==
    /\ (text \in TailCalls /\ IterationStart) => Len(stack) = 1
    /\ \A i \in DOMAIN log :
          (log[i].text \in TailCalls /\ Before(i, {TDefLoop, TDefDown}) # {})
          => /\ Succeeded(i)
             /\ log[i].val = Num(42)

\* the last iteration of the longest countdown starts (n has reached 0)
TailCallWitness ==
    /\ text \in {LoopCall(MaxN), DownCall(MaxN)}
    /\ IterationStart
    /\ Len(envs) >= MaxN + 2
    /\ envs[top.env].dict["n"] = Num(0)

\* C6: (define name exp) in Env E sets name in E and nothing else: every
\* other Env, ancestors of E included, keeps its keys and values, also when
\* an ancestor binds name; the form's value is None.
DefineWritesCurrentScopeOnly ==
    [][(/\ Resuming
        /\ top.pc = "define_exp"
        /\ KeyOk(top.x.l[2]))
       => /\ Len(envs') = Len(envs)
          /\ \A e \in DOMAIN envs : e # top.env => envs'[e] = envs[e]
          /\ envs'[top.env].outer = envs[top.env].outer
          /\ envs'[top.env].dict = SetItem(envs[top.env].dict, top.x.l[2].s, ret)
          /\ ret' = NoneV]_vars

\* a define ran in a call's Env for a name the global Env binds: both hold
\* their own value
DefineWitness ==
    \E e \in DOMAIN envs :
        /\ e # global_env
        /\ "x" \in DOMAIN envs[e].dict
        /\ "x" \in DOMAIN envs[global_env].dict
        /\ envs[e].dict["x"] = Num(5)
        /\ envs[global_env].dict["x"] = Num(1)
        /\ \E i \in DOMAIN log : log[i].text = TCallF /\ log[i].val = Num(5)

\* successful (inc) among the lines a+1 .. b
Incs(a, b) ==
    Cardinality({j \in (a + 1) .. b : log[j].text = TCallInc /\ Succeeded(j)})

\* C9: inc and get are created in one scope (the root after TShareRoot, the
\* Env of a call after TShareChild) and hold it by reference: (get) returns
\* the start value plus the number of (inc) since, and at top level c reads
\* what inc wrote to the root.
SharedScope ==
    \A i \in DOMAIN log :
        /\ (log[i].text \in {TCallInc, TCallGet}
              /\ Before(i, {TShareRoot, TShareChild}) # {})
           => Succeeded(i)
        /\ (log[i].text = TCallGet
              /\ Before(i, {TShareRoot, TShareChild}) # {})
           => LET j == MaxOf(Before(i, {TShareRoot, TShareChild}))
              IN  log[i].val =
                    Num((IF log[j].text = TShareRoot THEN 0 ELSE 5)
                        + Incs(j, i - 1))
        /\ (log[i].text = TSymC /\ Before(i, {TShareRoot}) # {})
           => LET j == MaxOf(Before(i, {TShareRoot}))
                  later == {k \in Before(i, {TShareChild}) : k > j}
                  upto == IF later = {} THEN i - 1
                          ELSE (CHOOSE m \in later : \A k \in later : m <= k)
              IN  /\ Succeeded(i)
                  /\ log[i].val = Num(Incs(j, upto))

\* get read what inc set
SharedScopeWitness ==
    \E i \in DOMAIN log :
        /\ log[i].text = TCallGet
        /\ Succeeded(i)
        /\ log[i].val \in {Num(1), Num(6)}
        /\ Incs(0, i - 1) = 1

\* C10: bindings written before a failure stay: in (begin (define a 1) b)
\* and (begin (set! a 5) b) the elements are evaluated left to right, the
\* define (set!) completes, b fails, the error reaches the caller, and a
\* keeps the value written, as later lines see.
CommittedBindingsStay ==
    /\ \A i \in DOMAIN log :
          /\ log[i].text \in {TDefThenFail, TSetThenFail} => ~Succeeded(i)
          /\ log[i].text = TDefThenFail
             => /\ "a" \in DOMAIN envs[global_env].dict
                /\ envs[global_env].dict["a"] \in {Num(1), Num(5)}
          /\ log[i].text = TSymA
             => IF Before(i, {TDefThenFail}) = {} THEN ~Succeeded(i)
                ELSE /\ Succeeded(i)
                     /\ log[i].val =
                          Num(IF log[MaxOf(Before(i, {TDefThenFail,
                                                      TSetThenFail}))].text
                                 = TDefThenFail
                              THEN 1 ELSE 5)
    /\ (Idle /\ log # <<>> /\ log[Len(log)].text = TDefThenFail)
       => envs[global_env].dict["a"] = Num(1)

\* a line failed after its define, and the next line read the binding
CommittedWitness ==
    \E i \in DOMAIN log :
        /\ i > 1
        /\ log[i - 1].text = TDefThenFail
        /\ log[i - 1].err = "AttributeError"
        /\ log[i].text = TSymA
        /\ log[i].val = Num(1)

=============================================================================
